---- MODULE Spec2Model ----
(***************************************************************************)
(* Evolutionary reinforcement learning in a signaling game with Polya urns *)
(* (src/4_Evo_Signaling_Game_Urn.ipynb): the environment, the Gene, the    *)
(* UrnAgent, the Creature and the main loop of the notebook.               *)
(*                                                                         *)
(* Objects are modelled with their identity: Gene objects live in the heap *)
(* `gene_heap` and Creature objects in the heap `creature_heap`; a        *)
(* Creature holds the ids of its Genes, the population holds the ids of    *)
(* its Creatures.                                                          *)
(* Real numbers are modelled by integers (fitness in units of 0.1, the     *)
(* mutation rate and its uniform draw in units of 1/2); arithmetic is      *)
(* exact.  A call of the random generator is a choice over its support.    *)
(***************************************************************************)
EXTENDS Integers, Sequences, FiniteSets, TLC

VARIABLES
    cfg,            \* the configuration cell: one record of the settings
    env,            \* the SignalingGameEnv object
    gene_heap,      \* heap of Gene objects: gene id -> Gene
    urn,            \* a stand-alone UrnAgent (the UrnAgent specification)
    call,           \* the most recent call: operation, arguments, outcome
    creature_heap,  \* heap of Creature objects: creature id -> Creature
    population,     \* the list `population` (creature ids)
    new_population, \* the list `new_population` (creature ids)
    loop            \* the main loop's position and local variables

vars == <<cfg, env, gene_heap, urn, call, creature_heap, population, new_population, loop>>

(***************************************************************************)
(* Bounds of the model.                                                    *)
(***************************************************************************)
MaxGenes  == 3   \* Gene objects alive at once in the Gene specification
MaxBuf    == 2   \* records in a train_buf in the UrnAgent specification
MaxReward == 1   \* largest reward passed to update_reward
MaxBalls  == 2   \* reward a stand-alone urn can take in (caps the counts)

(***************************************************************************)
(* Python values.                                                          *)
(***************************************************************************)
None    == <<>>          \* None, and an attribute that was never assigned
Some(v) == <<v>>

agent_names == <<"sender", "receiver">>
Roles       == {"sender", "receiver"}

Random     == [random |-> TRUE,  value |-> 0]   \* init_values = 'random'
Literal(v) == [random |-> FALSE, value |-> v]   \* init_values = v

Range(n)  == 0 .. (n - 1)
Arrays(size, S) == [Range(size[1]) -> [Range(size[2]) -> S]]

\* ndarray.sum() of a vector indexed 0 .. n-1
RECURSIVE SumTo(_, _)
SumTo(f, n) == IF n = 0 THEN 0 ELSE f[n - 1] + SumTo(f, n - 1)

\* rng.uniform(lo, hi): the support of the draw.  With lo > hi the call is
\* outside numpy's contract (high - low must be non-negative): it raises
\* ValueError or draws between hi and lo, depending on the generator
Uniform(lo, hi) == IF lo <= hi THEN lo .. hi ELSE hi .. lo

\* what a call of rng.uniform(lo, hi) can raise ("" when it returns a draw)
UniformRaises(lo, hi) == IF lo <= hi THEN {""} ELSE {"", "ValueError"}

\* rng.uniform(0, 1) in units of 1/2: 0 and 1/2 (1 is never drawn)
UDraws == {0, 1}
\* mutation rates in units of 1/2: 0, 1/2 and 1
Rates  == {0, 1, 2}

NoCall == [op |-> "", args |-> <<>>, raised |-> "", ret |-> None]
Call(op, args, raised, ret) == [op |-> op, args |-> args, raised |-> raised, ret |-> ret]

\* the id of a newly allocated object in heap h
NewId(h) == CHOOSE k \in 1 .. (Cardinality(DOMAIN h) + 1) :
                /\ k \notin DOMAIN h
                /\ \A j \in 1 .. (k - 1) : j \in DOMAIN h

EmptyHeap == [k \in {} |-> 0]

(***************************************************************************)
(* SignalingGameEnv                                                        *)
(***************************************************************************)
\* the object before __init__ calls reset()
EnvNew(num_states, num_messages) ==
    [num_states |-> num_states, num_messages |-> num_messages,
     state |-> None, message |-> None, action |-> None,
     success |-> None, done |-> FALSE, agent_selection |-> "sender"]

\* reset(), s the state drawn by rng.choice(num_states, p=state_dist)
reset(e, s) ==
    [e EXCEPT !.state = Some(s), !.success = None, !.done = FALSE,
              !.agent_selection = "sender"]

\* seeded fault: observe() that shows the hidden state to the receiver too
observe_StateToAll(e, agent_name) ==
    IF agent_name \in {"sender", "receiver"} THEN [raised |-> "", ret |-> e.state]
    ELSE [raised |-> "", ret |-> None]

\* observe(agent_name): what is returned or raised
observe(e, agent_name) ==
    IF agent_name = "sender" THEN [raised |-> "", ret |-> e.state]
    ELSE IF agent_name = "receiver"
         THEN IF e.message = None
              THEN [raised |-> "AttributeError", ret |-> None]
              ELSE [raised |-> "", ret |-> e.message]
         ELSE [raised |-> "", ret |-> None]

\* seeded fault: step() without its assertion
step_NoAssert(e, action) ==
    IF e.agent_selection = "sender"
    THEN [env |-> [e EXCEPT !.message = Some(action), !.agent_selection = "receiver"],
          raised |-> ""]
    ELSE [env |-> [e EXCEPT !.action = Some(action),
                            !.success = Some(e.state = Some(action)),
                            !.done = TRUE],
          raised |-> ""]

\* seeded fault: the receiver's action is compared with the message
step_VersusMessage(e, action) ==
    IF e.done # FALSE
    THEN [env |-> e, raised |-> "AssertionError"]
    ELSE IF e.agent_selection = "sender"
         THEN [env |-> [e EXCEPT !.message = Some(action),
                                 !.agent_selection = "receiver"],
               raised |-> ""]
         ELSE [env |-> [e EXCEPT !.action = Some(action),
                                 !.success = Some(e.message = Some(action)),
                                 !.done = TRUE],
               raised |-> ""]

\* step(action): the object after the call, and what is raised
step(e, action) ==
    IF e.done # FALSE
    THEN [env |-> e, raised |-> "AssertionError"]
    ELSE IF e.agent_selection = "sender"
         THEN [env |-> [e EXCEPT !.message = Some(action),
                                 !.agent_selection = "receiver"],
               raised |-> ""]
         ELSE IF e.agent_selection = "receiver"
              THEN [env |-> [e EXCEPT !.action = Some(action),
                                      !.success = Some(e.state = Some(action)),
                                      !.done = TRUE],
                    raised |-> ""]
              ELSE [env |-> e, raised |-> ""]

(***************************************************************************)
(* Gene                                                                    *)
(***************************************************************************)
\* Gene.__init__; draw is the array rng.uniform(min_val, max_val, size)
GeneInit(size, min_val, max_val, init_values, draw) ==
    [size |-> size, min_val |-> min_val, max_val |-> max_val,
     init_values |-> init_values,
     values |-> IF init_values.random
                THEN draw
                ELSE [o \in Range(size[1]) |-> [c \in Range(size[2]) |-> init_values.value]]]

\* np.where(mask, a, b)
Where(size, mask, a, b) ==
    [o \in Range(size[1]) |-> [c \in Range(size[2]) |->
        IF mask[o][c] THEN a[o][c] ELSE b[o][c]]]

\* seeded fault: crossover that blends the two parents
crossover_Blend(self, other_gene, draw, random_mask) ==
    [GeneInit(self.size, self.min_val, self.max_val, self.init_values, draw) EXCEPT
        !.values = [o \in Range(self.size[1]) |-> [c \in Range(self.size[2]) |->
                       (self.values[o][c] + other_gene.values[o][c]) \div 2]]]

\* crossover; draw is the uniform array of the new Gene's __init__ (used when
\* init_values is 'random'), random_mask is rng.integers(0, 2, size)
crossover(self, other_gene, draw, random_mask) ==
    LET new_gene == GeneInit(self.size, self.min_val, self.max_val, self.init_values, draw)
        truthy   == [o \in Range(self.size[1]) |-> [c \in Range(self.size[2]) |->
                        random_mask[o][c] # 0]]
    IN  [new_gene EXCEPT !.values = Where(self.size, truthy, self.values, other_gene.values)]

\* seeded fault: mutate whose mask is u <= mutation_rate
mutate_AtMost(self, mutation_rate, u, fresh) ==
    LET random_mask == [o \in Range(self.size[1]) |-> [c \in Range(self.size[2]) |->
                           u[o][c] <= mutation_rate]]
    IN  [self EXCEPT !.values = Where(self.size, random_mask, fresh, self.values)]

\* mutate; u is rng.uniform(0, 1, size), fresh is rng.uniform(min_val, max_val, size)
mutate(self, mutation_rate, u, fresh) ==
    LET random_mask == [o \in Range(self.size[1]) |-> [c \in Range(self.size[2]) |->
                           u[o][c] < mutation_rate]]
    IN  [self EXCEPT !.values = Where(self.size, random_mask, fresh, self.values)]

\* the draws (u, fresh) of a call of mutate, one pair for each outcome the call can
\* have: a draw that does not reach the result (two u on the same side of
\* mutation_rate, a fresh value that the mask drops) is fixed to the least one
MutateDraws(self, mutation_rate) ==
    LET lo  == CHOOSE v \in Uniform(self.min_val, self.max_val) :
                  \A w \in Uniform(self.min_val, self.max_val) : v <= w
        hit == {x \in UDraws : x < mutation_rate}
        mis == {x \in UDraws : ~ (x < mutation_rate)}
        rep == (IF hit = {} THEN {} ELSE {CHOOSE x \in hit : \A y \in hit : x <= y})
               \cup (IF mis = {} THEN {} ELSE {CHOOSE x \in mis : \A y \in mis : x <= y})
    IN  {d \in [u : Arrays(self.size, rep),
                fresh : Arrays(self.size, Uniform(self.min_val, self.max_val))] :
            \A o \in Range(self.size[1]), c \in Range(self.size[2]) :
                ~ (d.u[o][c] < mutation_rate) => d.fresh[o][c] = lo}

(***************************************************************************)
(* UrnAgent                                                                *)
(***************************************************************************)
\* seeded fault: an urn of one ball per choice, without the bias of the Gene
UrnAgentInit_NoBias(bias_gene, g) ==
    [bias_gene |-> bias_gene, num_obs |-> g.size[1], num_choices |-> g.size[2],
     urn_balls |-> [obs \in Range(g.size[1]) |-> [c \in Range(g.size[2]) |-> 1]],
     urn_sum_balls |-> [obs \in Range(g.size[1]) |-> g.size[2]],
     train_buf |-> <<>>]

\* UrnAgent.__init__; bias_gene is the id of the Gene object g
UrnAgentInit(bias_gene, g) ==
    LET num_obs     == g.size[1]
        num_choices == g.size[2]
        urn_balls   == [obs \in Range(num_obs) |-> [c \in Range(num_choices) |->
                           1 + g.values[obs][c]]]
    IN  [bias_gene |-> bias_gene, num_obs |-> num_obs, num_choices |-> num_choices,
         urn_balls |-> urn_balls,
         urn_sum_balls |-> [obs \in Range(num_obs) |-> SumTo(urn_balls[obs], num_choices)],
         train_buf |-> <<>>]

\* get_action(obs): the choices rng.choice can return with p = urn_balls / urn_sum_balls
\* (rng.choice raises ValueError when some p is negative or p is not a distribution)
get_action(agent, obs) ==
    IF /\ \A c \in Range(agent.num_choices) : agent.urn_balls[obs][c] >= 0
       /\ agent.urn_sum_balls[obs] > 0
       /\ SumTo(agent.urn_balls[obs], agent.num_choices) = agent.urn_sum_balls[obs]
    THEN [raised |-> "",
          choices |-> {c \in Range(agent.num_choices) : agent.urn_balls[obs][c] > 0}]
    ELSE [raised |-> "ValueError", choices |-> {}]

\* seeded fault: store_buffer that records (choice, obs)
store_buffer_Swapped(agent, obs, choice) ==
    [agent EXCEPT !.train_buf = Append(@, <<choice, obs, 0>>)]
\* store_buffer(observation, choice): a record with reward 0 at the tail
store_buffer(agent, obs, choice) ==
    [agent EXCEPT !.train_buf = Append(@, <<obs, choice, 0>>)]

\* seeded fault: update_reward that credits the oldest record of the buffer
update_reward_First(agent, reward) ==
    IF Len(agent.train_buf) > 0
    THEN [agent EXCEPT !.train_buf[1][3] = @ + reward]
    ELSE agent
\* update_reward(reward): train_buf[-1][2] += reward when the buffer is not empty
update_reward(agent, reward) ==
    IF Len(agent.train_buf) > 0
    THEN [agent EXCEPT !.train_buf[Len(agent.train_buf)][3] = @ + reward]
    ELSE agent

\* seeded fault: train() that leaves urn_sum_balls alone
RECURSIVE TrainLoop_NoSum(_, _)
TrainLoop_NoSum(agent, buf) ==
    IF buf = <<>> THEN agent
    ELSE TrainLoop_NoSum([agent EXCEPT !.urn_balls[Head(buf)[1]][Head(buf)[2]] = @ + Head(buf)[3]],
                         Tail(buf))

\* seeded fault: train() that adds the reward to the sum and not to the count
RECURSIVE TrainLoop_SumOnly(_, _)
TrainLoop_SumOnly(agent, buf) ==
    IF buf = <<>> THEN agent
    ELSE TrainLoop_SumOnly([agent EXCEPT !.urn_sum_balls[Head(buf)[1]] = @ + Head(buf)[3]],
                           Tail(buf))

\* the for loop of train() over the records of the buffer
RECURSIVE TrainLoop(_, _)
TrainLoop(agent, buf) ==
    IF buf = <<>> THEN agent
    ELSE LET obs    == Head(buf)[1]
             choice == Head(buf)[2]
             reward == Head(buf)[3]
         IN  TrainLoop([agent EXCEPT !.urn_balls[obs][choice] = @ + reward,
                                     !.urn_sum_balls[obs] = @ + reward],
                       Tail(buf))

\* seeded fault: train() that does not empty the buffer
train_KeepBuf(agent) == TrainLoop(agent, agent.train_buf)

train(agent) == [TrainLoop(agent, agent.train_buf) EXCEPT !.train_buf = <<>>]

(***************************************************************************)
(* Creature                                                                *)
(***************************************************************************)
\* rng.geometric(1 / lifespan_mean): the support of the draw, cut at MaxLifespan
\* (with lifespan_mean = 1 the success probability is 1 and the draw is 1)
MaxLifespan == 2
Geometric(lifespan_mean) == IF lifespan_mean = 1 THEN {1} ELSE 1 .. MaxLifespan

\* Creature.__init__; bias_genes maps each role to the id of a Gene object of
\* heap h, lifespan is the draw of rng.geometric
CreatureInit(bias_genes, h, lifespan) ==
    [bias_genes |-> bias_genes,
     agents     |-> [r \in Roles |-> UrnAgentInit(bias_genes[r], h[bias_genes[r]])],
     fitness    |-> 0,
     lifespan   |-> lifespan]

(***************************************************************************)
(* The configuration cell and the initial population                       *)
(***************************************************************************)
GeneSize(c, role) == IF role = "sender" THEN <<c.num_states, c.num_messages>>
                     ELSE <<c.num_messages, c.num_states>>

\* seeded fault: a matching distribution that gives the sender's own slot no weight
matching_dists_NoSelf(c, s) ==
    IF c.matching_bias = "uniform" THEN Range(c.pop_size) \ {s}
    ELSE IF c.matching_bias = "group"
         THEN {j \in Range(c.pop_size) : j % c.num_groups = s % c.num_groups} \ {s}
         ELSE {}
\* matching_dists[s]: the population slots with a positive probability
matching_dists(c, s) ==
    IF c.matching_bias = "uniform" THEN Range(c.pop_size)
    ELSE IF c.matching_bias = "group"
         THEN {j \in Range(c.pop_size) : j % c.num_groups = s % c.num_groups}
         ELSE {}

\* the arrays rng.uniform can return to a Gene.__init__ of the configuration; one
\* array stands for all of them when init_values is a literal (the draw is not made)
InitDraws(size, min_val, max_val, init_values) ==
    IF init_values.random THEN Arrays(size, Uniform(min_val, max_val))
    ELSE {[o \in Range(size[1]) |-> [c \in Range(size[2]) |-> init_values.value]]}

\* ids of the initial objects: creature j (slot j-1) holds genes 2j-1 and 2j
InitGeneId(j, role) == IF role = "sender" THEN 2 * j - 1 ELSE 2 * j

InitGenes(c, draws) ==
    [g \in 1 .. (2 * c.pop_size) |->
        LET j    == (g + 1) \div 2
            role == IF g % 2 = 1 THEN "sender" ELSE "receiver"
        IN  GeneInit(GeneSize(c, role), c.min_bias, c.max_bias, c.init_bias, draws[j][role])]

InitCreatures(c, h, lifespans) ==
    [j \in 1 .. c.pop_size |->
        CreatureInit([r \in Roles |-> InitGeneId(j, r)], h, lifespans[j])]

\* the diagnostic series, empty before the loop; an entry is modelled by the
\* generation (the value of gen) whose episodes and fitnesses it is computed from
NoLogs == [success_rate |-> <<>>, fitness_mean |-> <<>>, fitness_var |-> <<>>,
           rewards_mean |-> [r \in Roles |-> <<>>],
           bias_suc_fail_diff_mean |-> [r \in Roles |-> <<>>]]

\* the loop before its first episode; the locals of the loop are None until assigned
LoopStart ==
    [pc |-> "episode", gen |-> 0, episode |-> 0,
     sender_idx |-> None, creatures |-> None,
     agent_name |-> None, obs |-> None, action |-> None,
     role |-> 1, i |-> 0, tournament |-> <<>>, winners |-> <<>>, new_genes |-> None,
     raised |-> "", logs |-> NoLogs, life |-> EmptyHeap, start |-> None]

\* histories (not variables of the program): `start` is the population's
\* creatures as they were when the running episode was started, and `life` gives
\* for a creature the lifespan drawn at its construction and the first generation
\* whose episodes it can play in
Born(lifespan, since) == [drawn |-> lifespan, since |-> since]

\* the state after the configuration cell has run with settings c
LoopInit(c) ==
    /\ cfg = c
    /\ \E s \in Range(c.num_states) :
          env = reset(EnvNew(c.num_states, c.num_messages), s)
    /\ \E ds \in [1 .. c.pop_size -> InitDraws(GeneSize(c, "sender"), c.min_bias, c.max_bias, c.init_bias)],
          dr \in [1 .. c.pop_size -> InitDraws(GeneSize(c, "receiver"), c.min_bias, c.max_bias, c.init_bias)],
          lifespans \in [1 .. c.pop_size -> Geometric(c.lifespan_mean)] :
          /\ gene_heap = InitGenes(c, [j \in 1 .. c.pop_size |->
                                     [r \in Roles |-> IF r = "sender" THEN ds[j] ELSE dr[j]]])
          /\ creature_heap = InitCreatures(c, gene_heap, lifespans)
          /\ loop = [LoopStart EXCEPT !.life = [j \in 1 .. c.pop_size |-> Born(lifespans[j], 0)]]
    /\ population = [j \in 1 .. c.pop_size |-> j]
    /\ new_population = <<>>
    /\ urn = None
    /\ call = NoCall

(***************************************************************************)
(* The main loop                                                           *)
(***************************************************************************)
Crash(l, exception) == [l EXCEPT !.pc = "crashed", !.raised = exception]

\* seeded fault: the tournament is drawn with replacement
Samples_Replace(pop, k) ==
    {[j \in 1 .. k |-> pop[t[j]]] : t \in [1 .. k -> 1 .. Len(pop)]}

\* rng.choice(population, k, replace=False): the lists it can return
Samples(pop, k) ==
    {[j \in 1 .. k |-> pop[t[j]]] :
        t \in {t \in [1 .. k -> 1 .. Len(pop)] : \A a, b \in 1 .. k : a # b => t[a] # t[b]}}

\* sorted(tournament, key=lambda x: x.fitness, reverse=True): stable, so creatures
\* of equal fitness keep the order they have in the tournament
sorted_by_fitness(tournament, h) ==
    LET before(a, b) == \/ h[tournament[a]].fitness > h[tournament[b]].fitness
                        \/ /\ h[tournament[a]].fitness = h[tournament[b]].fitness
                           /\ a < b
        rank(b) == Cardinality({a \in 1 .. Len(tournament) : before(a, b)})
    IN  [r \in 1 .. Len(tournament) |->
            tournament[CHOOSE b \in 1 .. Len(tournament) : rank(b) = r - 1]]

\* seeded fault: the first creature of minimal fitness
max_by_fitness_Min(tournament, h) ==
    tournament[CHOOSE b \in 1 .. Len(tournament) :
        /\ \A a \in 1 .. Len(tournament) : h[tournament[a]].fitness >= h[tournament[b]].fitness
        /\ \A a \in 1 .. (b - 1) : h[tournament[a]].fitness > h[tournament[b]].fitness]

\* max(tournament, key=lambda x: x.fitness): the first creature of maximal fitness
max_by_fitness(tournament, h) ==
    tournament[CHOOSE b \in 1 .. Len(tournament) :
        /\ \A a \in 1 .. Len(tournament) : h[tournament[a]].fitness <= h[tournament[b]].fitness
        /\ \A a \in 1 .. (b - 1) : h[tournament[a]].fitness < h[tournament[b]].fitness]

\* seeded fault: the two creatures at the end of the sorted tournament
TopTwo_LastTwo(tournament, h) ==
    LET s == sorted_by_fitness(tournament, h)
    IN  SubSeq(s, IF Len(s) < 2 THEN 1 ELSE Len(s) - 1, Len(s))

\* winners = sorted(...)[:2]
TopTwo(tournament, h) ==
    LET s == sorted_by_fitness(tournament, h)
    IN  SubSeq(s, 1, IF Len(s) < 2 THEN Len(s) ELSE 2)

\* new_genes = winner.bias_genes: the winner's own Gene objects, no copy
WinnerGenes(winner, h) == h[winner].bias_genes

\* seeded fault: `if env.success` read as `if env.success is not None`
Truthy_NotNone(success) == success # None
\* `if env.success`
Truthy(success) == success = Some(TRUE)

\* sender_idx = rng.integers(0, pop_size); sender = population[sender_idx];
\* receiver = rng.choice(population, p=matching_dists[sender_idx]); env.reset()
StartEpisode ==
    /\ loop.pc = "episode"
    /\ loop.episode < cfg.num_episodes_per_creature * cfg.pop_size
    /\ \E sender_idx \in Range(cfg.pop_size) :
       \E receiver_idx \in matching_dists(cfg, sender_idx) :
       \E s \in Range(cfg.num_states) :
          /\ loop' = [loop EXCEPT !.pc = "turn",
                                  !.start = Some(creature_heap),
                                  !.sender_idx = Some(sender_idx),
                                  !.creatures = [sender   |-> population[sender_idx + 1],
                                                 receiver |-> population[receiver_idx + 1]]]
          /\ env' = reset(env, s)
    /\ UNCHANGED <<cfg, gene_heap, urn, call, creature_heap, population, new_population>>

\* one pass of `while not env.done` up to get_action
Turn ==
    /\ loop.pc = "turn"
    /\ LET agent_name == env.agent_selection
           o     == observe(env, agent_name)
           agent == creature_heap[loop.creatures[agent_name]].agents[agent_name]
       IN  IF o.raised # "" \/ o.ret = None
           THEN loop' = Crash(loop, IF o.raised # "" THEN o.raised ELSE "TypeError")
           ELSE LET obs == o.ret[1]
                    a   == get_action(agent, obs)
                IN  IF a.raised # ""
                    THEN loop' = Crash(loop, a.raised)
                    ELSE \E action \in a.choices :
                            loop' = [loop EXCEPT !.pc = "step",
                                                 !.agent_name = Some(agent_name),
                                                 !.obs = Some(obs),
                                                 !.action = Some(action)]
    /\ UNCHANGED <<cfg, env, gene_heap, urn, call, creature_heap, population, new_population>>

\* seeded fault: the record is stored first and the environment advanced after it
StepEnv_StoreFirst ==
    /\ loop.pc = "step"
    /\ LET name == loop.agent_name[1]
           cid  == loop.creatures[name]
           r    == step(env, loop.action[1])
       IN  /\ creature_heap' = [creature_heap EXCEPT ![cid].agents[name] =
                                   store_buffer(@, loop.obs[1], loop.action[1])]
           /\ env' = r.env
           /\ loop' = IF r.raised # "" THEN Crash(loop, r.raised)
                      ELSE [loop EXCEPT !.pc = IF r.env.done THEN "credit" ELSE "turn",
                                        !.role = 1]
    /\ UNCHANGED <<cfg, gene_heap, urn, call, population, new_population>>

\* env.step(action)
StepEnv ==
    /\ loop.pc = "step"
    /\ LET r == step(env, loop.action[1])
       IN  /\ env' = r.env
           /\ loop' = IF r.raised # "" THEN Crash(loop, r.raised)
                      ELSE [loop EXCEPT !.pc = "store"]
    /\ UNCHANGED <<cfg, gene_heap, urn, call, creature_heap, population, new_population>>

\* seeded fault: the record goes to both learners of the acting creature
Store_BothLearners ==
    /\ loop.pc = "store"
    /\ LET cid == loop.creatures[loop.agent_name[1]]
       IN  creature_heap' = [creature_heap EXCEPT ![cid].agents =
                                [r \in Roles |-> store_buffer(@[r], loop.obs[1], loop.action[1])]]
    /\ loop' = [loop EXCEPT !.pc = IF env.done THEN "credit" ELSE "turn", !.role = 1]
    /\ UNCHANGED <<cfg, env, gene_heap, urn, call, population, new_population>>

\* agent.store_buffer(obs, action), then the test of `while not env.done`
Store ==
    /\ loop.pc = "store"
    /\ LET name == loop.agent_name[1]
           cid  == loop.creatures[name]
       IN  creature_heap' = [creature_heap EXCEPT ![cid].agents[name] =
                                store_buffer(@, loop.obs[1], loop.action[1])]
    /\ loop' = [loop EXCEPT !.pc = IF env.done THEN "credit" ELSE "turn", !.role = 1]
    /\ UNCHANGED <<cfg, env, gene_heap, urn, call, population, new_population>>

\* one pass of `for _agent_name in env.agent_names` up to update_reward
Credit ==
    /\ loop.pc = "credit"
    /\ LET name    == agent_names[loop.role]
           cid     == loop.creatures[name]
           fitness == IF Truthy(env.success) THEN cfg.success_fitness[name] ELSE 0
           reward  == IF Truthy(env.success) THEN cfg.success_reward[name] ELSE 0
       IN  creature_heap' = [creature_heap EXCEPT
                                ![cid].fitness = @ + fitness,
                                ![cid].agents[name] = update_reward(@, reward)]
    /\ loop' = [loop EXCEPT !.pc = "train"]
    /\ UNCHANGED <<cfg, env, gene_heap, urn, call, population, new_population>>

\* seeded fault: train() is called on the sender learner of each role's creature
Train_SenderLearner ==
    /\ loop.pc = "train"
    /\ LET name == agent_names[loop.role]
           cid  == loop.creatures[name]
       IN  creature_heap' = [creature_heap EXCEPT ![cid].agents["sender"] = train(@)]
    /\ loop' = IF loop.role < Len(agent_names)
               THEN [loop EXCEPT !.pc = "credit", !.role = @ + 1]
               ELSE [loop EXCEPT !.pc = "episode", !.role = 1, !.episode = @ + 1,
                                 !.start = None,
                                 !.sender_idx = None, !.creatures = None,
                                 !.agent_name = None, !.obs = None, !.action = None]
    /\ UNCHANGED <<cfg, env, gene_heap, urn, call, population, new_population>>

\* creatures[_agent_name].agents[_agent_name].train(), then the next role or the
\* next episode; the locals of the episode are dead from here on
Train ==
    /\ loop.pc = "train"
    /\ LET name == agent_names[loop.role]
           cid  == loop.creatures[name]
       IN  creature_heap' = [creature_heap EXCEPT ![cid].agents[name] = train(@)]
    /\ loop' = IF loop.role < Len(agent_names)
               THEN [loop EXCEPT !.pc = "credit", !.role = @ + 1]
               ELSE [loop EXCEPT !.pc = "episode", !.role = 1, !.episode = @ + 1,
                                 !.start = None,
                                 !.sender_idx = None, !.creatures = None,
                                 !.agent_name = None, !.obs = None, !.action = None]
    /\ UNCHANGED <<cfg, env, gene_heap, urn, call, population, new_population>>

\* the episodes of the generation are over: new_population = []
EndEpisodes ==
    /\ loop.pc = "episode"
    /\ loop.episode >= cfg.num_episodes_per_creature * cfg.pop_size
    /\ new_population' = <<>>
    /\ loop' = [loop EXCEPT !.pc = "replace", !.i = 0]
    /\ UNCHANGED <<cfg, env, gene_heap, urn, call, creature_heap, population>>

\* seeded fault: the carry-over test is lifespan >= 1
CarryOver_AtLeastOne ==
    /\ loop.pc = "replace"
    /\ loop.i < cfg.pop_size
    /\ LET cid == population[loop.i + 1]
       IN  /\ creature_heap[cid].lifespan >= 1
           /\ creature_heap' = [creature_heap EXCEPT ![cid].lifespan = @ - 1]
           /\ new_population' = Append(new_population, cid)
    /\ loop' = [loop EXCEPT !.i = @ + 1]
    /\ UNCHANGED <<cfg, env, gene_heap, urn, call, population>>

\* seeded fault: a carried-over creature starts again with fitness 0
CarryOver_ResetFitness ==
    /\ loop.pc = "replace"
    /\ loop.i < cfg.pop_size
    /\ LET cid == population[loop.i + 1]
       IN  /\ creature_heap[cid].lifespan > 1
           /\ creature_heap' = [creature_heap EXCEPT ![cid].lifespan = @ - 1,
                                                     ![cid].fitness = 0]
           /\ new_population' = Append(new_population, cid)
    /\ loop' = [loop EXCEPT !.i = @ + 1]
    /\ UNCHANGED <<cfg, env, gene_heap, urn, call, population>>

\* seeded fault: a carried-over creature keeps its lifespan
CarryOver_NoDecrement ==
    /\ loop.pc = "replace"
    /\ loop.i < cfg.pop_size
    /\ creature_heap[population[loop.i + 1]].lifespan > 1
    /\ new_population' = Append(new_population, population[loop.i + 1])
    /\ loop' = [loop EXCEPT !.i = @ + 1]
    /\ UNCHANGED <<cfg, env, gene_heap, urn, call, creature_heap, population>>

\* population[i].lifespan > 1: the creature is carried over
CarryOver ==
    /\ loop.pc = "replace"
    /\ loop.i < cfg.pop_size
    /\ LET cid == population[loop.i + 1]
       IN  /\ creature_heap[cid].lifespan > 1
           /\ creature_heap' = [creature_heap EXCEPT ![cid].lifespan = @ - 1]
           /\ new_population' = Append(new_population, cid)
    /\ loop' = [loop EXCEPT !.i = @ + 1]
    /\ UNCHANGED <<cfg, env, gene_heap, urn, call, population>>

\* tournament = rng.choice(population, tornament_size, replace=False) and the
\* choice of the winners
Tournament ==
    /\ loop.pc = "replace"
    /\ loop.i < cfg.pop_size
    /\ ~ (creature_heap[population[loop.i + 1]].lifespan > 1)
    /\ IF cfg.tornament_size > Len(population)
       THEN loop' = Crash(loop, "ValueError")
       ELSE \E tournament \in Samples(population, cfg.tornament_size) :
               IF cfg.do_crossover
               THEN loop' = [loop EXCEPT !.pc = "cross", !.role = 1,
                                         !.tournament = tournament,
                                         !.winners = TopTwo(tournament, creature_heap),
                                         !.new_genes = EmptyHeap]
               ELSE loop' = [loop EXCEPT !.pc = "mutate", !.role = 1,
                                         !.tournament = tournament,
                                         !.winners = <<max_by_fitness(tournament, creature_heap)>>,
                                         !.new_genes = WinnerGenes(max_by_fitness(tournament, creature_heap),
                                                                   creature_heap)]
    /\ UNCHANGED <<cfg, env, gene_heap, urn, call, creature_heap, population, new_population>>

\* new_genes[role] = winners[0].bias_genes[role].crossover(winners[1].bias_genes[role])
Cross ==
    /\ loop.pc = "cross"
    /\ LET name == agent_names[loop.role]
       IN  IF Len(loop.winners) < 2
           THEN /\ loop' = Crash(loop, "IndexError")
                /\ UNCHANGED gene_heap
           ELSE LET self  == gene_heap[creature_heap[loop.winners[1]].bias_genes[name]]
                    other == gene_heap[creature_heap[loop.winners[2]].bias_genes[name]]
                    id    == NewId(gene_heap)
                IN  \E draw \in InitDraws(self.size, self.min_val, self.max_val, self.init_values) :
                    \E random_mask \in Arrays(self.size, {0, 1}) :
                       /\ gene_heap' = gene_heap @@ (id :> crossover(self, other, draw, random_mask))
                       /\ loop' = [loop EXCEPT
                                      !.new_genes = @ @@ (name :> id),
                                      !.role = IF loop.role < Len(agent_names) THEN @ + 1 ELSE 1,
                                      !.pc = IF loop.role < Len(agent_names) THEN "cross" ELSE "mutate"]
    /\ UNCHANGED <<cfg, env, urn, call, creature_heap, population, new_population>>

\* new_genes[role].mutate(mutation_rate)
Mutate ==
    /\ loop.pc = "mutate"
    /\ LET name == agent_names[loop.role]
           id   == loop.new_genes[name]
           self == gene_heap[id]
       IN  \E raised \in UniformRaises(self.min_val, self.max_val) :
              IF raised # ""
              THEN /\ loop' = Crash(loop, raised)
                   /\ UNCHANGED gene_heap
              ELSE /\ \E d \in MutateDraws(self, cfg.mutation_rate) :
                         gene_heap' = [gene_heap EXCEPT
                                          ![id] = mutate(self, cfg.mutation_rate, d.u, d.fresh)]
                   /\ loop' = [loop EXCEPT
                                  !.role = IF loop.role < Len(agent_names) THEN @ + 1 ELSE 1,
                                  !.pc = IF loop.role < Len(agent_names) THEN "mutate" ELSE "create"]
    /\ UNCHANGED <<cfg, env, urn, call, creature_heap, population, new_population>>

\* seeded fault: the new Creature is constructed and not appended
Create_NoAppend ==
    /\ loop.pc = "create"
    /\ \E lifespan \in Geometric(cfg.lifespan_mean) :
          /\ creature_heap' = creature_heap @@
                (NewId(creature_heap) :> CreatureInit(loop.new_genes, gene_heap, lifespan))
          /\ loop' = [loop EXCEPT !.pc = "replace", !.i = @ + 1,
                                  !.tournament = <<>>, !.winners = <<>>, !.new_genes = None,
                                  !.life = @ @@ (NewId(creature_heap) :> Born(lifespan, loop.gen + 1))]
    /\ UNCHANGED <<cfg, env, gene_heap, urn, call, population, new_population>>

\* new_population.append(Creature(new_genes, lifespan_mean))
Create ==
    /\ loop.pc = "create"
    /\ \E lifespan \in Geometric(cfg.lifespan_mean) :
          LET id == NewId(creature_heap)
          IN  /\ creature_heap' = creature_heap @@
                                    (id :> CreatureInit(loop.new_genes, gene_heap, lifespan))
              /\ new_population' = Append(new_population, id)
              /\ loop' = [loop EXCEPT !.pc = "replace", !.i = @ + 1,
                                      !.tournament = <<>>, !.winners = <<>>, !.new_genes = None,
                                      !.life = @ @@ (id :> Born(lifespan, loop.gen + 1))]
    /\ UNCHANGED <<cfg, env, gene_heap, urn, call, population>>

\* the objects still referenced once `population` is rebound
LiveGenes(h, pop) == {h[pop[j]].bias_genes[r] : j \in 1 .. Len(pop), r \in Roles}
Restrict(h, ids)  == [k \in (DOMAIN h) \cap ids |-> h[k]]

\* population = new_population and the logging of the generation
Install ==
    /\ loop.pc = "replace"
    /\ loop.i >= cfg.pop_size
    /\ population' = new_population
    /\ creature_heap' = Restrict(creature_heap, {new_population[j] : j \in 1 .. Len(new_population)})
    /\ gene_heap' = Restrict(gene_heap, LiveGenes(creature_heap, new_population))
    /\ loop' = [loop EXCEPT
                  !.gen = @ + 1, !.episode = 0,
                  !.life = Restrict(@, {new_population[j] : j \in 1 .. Len(new_population)}),
                  !.pc = IF loop.gen + 1 < cfg.num_gen THEN "episode" ELSE "done",
                  !.logs = [success_rate |-> Append(@.success_rate, loop.gen),
                            fitness_mean |-> @.fitness_mean \o
                                                [k \in 1 .. Len(agent_names) |-> loop.gen],
                            fitness_var  |-> @.fitness_var \o
                                                [k \in 1 .. Len(agent_names) |-> loop.gen],
                            rewards_mean |->
                                [r \in Roles |-> Append(@.rewards_mean[r], loop.gen)],
                            bias_suc_fail_diff_mean |->
                                [r \in Roles |-> Append(@.bias_suc_fail_diff_mean[r], loop.gen)]]]
    /\ UNCHANGED <<cfg, env, urn, call, new_population>>

Next ==
    \/ StartEpisode \/ Turn \/ StepEnv \/ Store \/ Credit \/ Train \/ EndEpisodes
    \/ CarryOver \/ Tournament \/ Cross \/ Mutate \/ Create \/ Install

(***************************************************************************)
(* Configurations of the main loop                                         *)
(*                                                                         *)
(* A configuration is an input of the program.  Spec runs the loop for     *)
(* MaxGen generations on a population of two with 1 x 1 Genes, where every *)
(* creature plays with itself and every episode with sound urns succeeds.  *)
(* The settings cover crossover on and off, mutation, lifespans above 1, a *)
(* tournament of one creature, a tournament larger than the population,   *)
(* and a literal init_bias below min_bias.                                 *)
(***************************************************************************)
MaxGen == 2

Setting(pop_size, num_gen, init_bias, tornament_size, do_crossover, mutation_rate, lifespan_mean) ==
    [num_states |-> 1, num_messages |-> 1,
     pop_size |-> pop_size, num_episodes_per_creature |-> 1,
     min_bias |-> 0, max_bias |-> 1, init_bias |-> init_bias,
     success_fitness |-> [sender |-> 1, receiver |-> 10],
     success_reward  |-> [sender |-> 1, receiver |-> 1],
     tornament_size |-> tornament_size, do_crossover |-> do_crossover,
     mutation_rate |-> mutation_rate, lifespan_mean |-> lifespan_mean,
     matching_bias |-> "group", num_groups |-> 2, num_gen |-> num_gen]

Settings ==
    {Setting(2, MaxGen, Literal(0), 2, x, m, 2) : x \in BOOLEAN, m \in {0, 1}}
    \cup {Setting(2, MaxGen, Random, 2, x, 0, 1) : x \in BOOLEAN}
    \cup {Setting(2, MaxGen, Random, 1, FALSE, 0, 1)}
    \cup {Setting(2, MaxGen, Literal(0 - 1), 2, x, 0, 1) : x \in BOOLEAN}
    \cup {Setting(2, MaxGen, Literal(0), 3, FALSE, 0, 2)}

Init == \E c \in Settings : LoopInit(c)

Spec == Init /\ [][Next]_vars

(***************************************************************************)
(* Selection: one generation of a population of three with a tournament of *)
(* three and crossover on.  Every creature plays with itself, so the       *)
(* fitness of a creature grows with the number of episodes it was drawn    *)
(* for and the tournament holds creatures of unequal fitness.  The Genes   *)
(* are random 1 x 1 Genes where every lifespan is 1, and literal ones      *)
(* where creatures can be carried over.                                    *)
(***************************************************************************)
SelSettings ==
    {[Setting(3, 1, Random, 3, TRUE, 0, 1) EXCEPT !.num_groups = 3],
     [Setting(3, 1, Literal(0), 3, TRUE, 0, 2) EXCEPT !.num_groups = 3]}

SelInit == \E c \in SelSettings : LoopInit(c)

SpecSel == SelInit /\ [][Next]_vars

(***************************************************************************)
(* Episodes: one generation of two episodes in a world of two states and   *)
(* two messages, with 'uniform' matching: the receiver is any creature of  *)
(* the population, the sender included, and an episode can fail.           *)
(***************************************************************************)
EpSettings ==
    {[Setting(2, 1, Literal(0), 2, TRUE, 0, 2) EXCEPT
         !.num_states = 2, !.num_messages = 2, !.matching_bias = "uniform",
         !.success_reward = [sender |-> 1, receiver |-> 2]]}

EpInit == \E c \in EpSettings : LoopInit(c)

SpecEp == EpInit /\ [][Next]_vars

(***************************************************************************)
(* Inverted bounds: the loop of Spec under settings with min_bias 1 above  *)
(* max_bias 0 and a literal init_bias, as in the notebook's own settings.  *)
(***************************************************************************)
BoundsSettings ==
    {[Setting(2, 1, Literal(0), 2, x, 1, 2) EXCEPT !.min_bias = 1, !.max_bias = 0] :
        x \in BOOLEAN}

BoundsInit == \E c \in BoundsSettings : LoopInit(c)

SpecBounds == BoundsInit /\ [][Next]_vars

(***************************************************************************)
(* Matching: one generation of a population of three under 'group'         *)
(* matching with two groups (slots 0 and 2 form a group, slot 1 is alone)  *)
(* and under 'uniform' matching.                                           *)
(***************************************************************************)
MatchSettings ==
    {[Setting(3, 1, Literal(0), 2, TRUE, 0, 2) EXCEPT !.matching_bias = b] :
        b \in {"group", "uniform"}}

MatchInit == \E c \in MatchSettings : LoopInit(c)

SpecMatch == MatchInit /\ [][Next]_vars

(***************************************************************************)
(* The objects on their own: each class driven by an arbitrary caller.     *)
(***************************************************************************)
LoopOff == [LoopStart EXCEPT !.pc = "off"]

\* ---- Gene ----
GeneSetting(min_bias, max_bias, init_bias) ==
    [Setting(0, 0, init_bias, 0, FALSE, 0, 1) EXCEPT
        !.num_states = 1, !.num_messages = 2,
        !.min_bias = min_bias, !.max_bias = max_bias]

GeneSettings ==
    {GeneSetting(0, 1, Random), GeneSetting(0, 1, Literal(1)),
     GeneSetting(0, 1, Literal(2)), GeneSetting(1, 2, Literal(0))}

GeneSpecInit ==
    /\ cfg \in GeneSettings
    /\ env = EnvNew(cfg.num_states, cfg.num_messages)
    /\ gene_heap = EmptyHeap
    /\ urn = None
    /\ call = NoCall
    /\ creature_heap = EmptyHeap
    /\ population = <<>>
    /\ new_population = <<>>
    /\ loop = LoopOff

\* g = Gene(size, min_bias, max_bias, init_bias)
GeneConstruct ==
    /\ Cardinality(DOMAIN gene_heap) < MaxGenes
    /\ LET size == GeneSize(cfg, "sender")
           id   == NewId(gene_heap)
       IN  \E draw \in InitDraws(size, cfg.min_bias, cfg.max_bias, cfg.init_bias) :
              /\ gene_heap' = gene_heap @@
                    (id :> GeneInit(size, cfg.min_bias, cfg.max_bias, cfg.init_bias, draw))
              /\ call' = Call("Gene", <<>>, "", Some(id))
    /\ UNCHANGED <<cfg, env, urn, creature_heap, population, new_population, loop>>

\* g = a.crossover(b)
GeneCrossover ==
    /\ Cardinality(DOMAIN gene_heap) < MaxGenes
    /\ \E a \in DOMAIN gene_heap, b \in DOMAIN gene_heap :
          LET self == gene_heap[a]
              id   == NewId(gene_heap)
          IN  \E draw \in InitDraws(self.size, self.min_val, self.max_val, self.init_values) :
              \E random_mask \in Arrays(self.size, {0, 1}) :
                 /\ gene_heap' = gene_heap @@
                       (id :> crossover(self, gene_heap[b], draw, random_mask))
                 /\ call' = Call("crossover", <<a, b>>, "", Some(id))
    /\ UNCHANGED <<cfg, env, urn, creature_heap, population, new_population, loop>>

\* seeded fault: mutate that returns a changed copy and leaves its Gene alone
GeneMutate_Copy ==
    /\ Cardinality(DOMAIN gene_heap) < MaxGenes
    /\ \E a \in DOMAIN gene_heap, mutation_rate \in Rates :
          LET self == gene_heap[a]
              id   == NewId(gene_heap)
          IN  \E d \in MutateDraws(self, mutation_rate) :
                 /\ gene_heap' = gene_heap @@ (id :> mutate(self, mutation_rate, d.u, d.fresh))
                 /\ call' = Call("mutate", <<a, mutation_rate>>, "", Some(id))
    /\ UNCHANGED <<cfg, env, urn, creature_heap, population, new_population, loop>>

\* a.mutate(mutation_rate)
GeneMutate ==
    /\ \E a \in DOMAIN gene_heap, mutation_rate \in Rates :
          LET self == gene_heap[a]
          IN  \E d \in MutateDraws(self, mutation_rate) :
                 /\ gene_heap' = [gene_heap EXCEPT ![a] = mutate(self, mutation_rate, d.u, d.fresh)]
                 /\ call' = Call("mutate", <<a, mutation_rate>>, "", Some(a))
    /\ UNCHANGED <<cfg, env, urn, creature_heap, population, new_population, loop>>

GeneNext == GeneConstruct \/ GeneCrossover \/ GeneMutate

SpecGene == GeneSpecInit /\ [][GeneNext]_vars

\* ---- SignalingGameEnv ----
EnvSpecInit ==
    /\ cfg = [Setting(0, 0, Literal(0), 0, FALSE, 0, 1) EXCEPT
                 !.num_states = 2, !.num_messages = 2]
    /\ \E s \in Range(cfg.num_states) :
          env = reset(EnvNew(cfg.num_states, cfg.num_messages), s)
    /\ gene_heap = EmptyHeap
    /\ urn = None
    /\ call = NoCall
    /\ creature_heap = EmptyHeap
    /\ population = <<>>
    /\ new_population = <<>>
    /\ loop = LoopOff

EnvReset ==
    /\ \E s \in Range(cfg.num_states) : env' = reset(env, s)
    /\ call' = Call("reset", <<>>, "", None)
    /\ UNCHANGED <<cfg, gene_heap, urn, creature_heap, population, new_population, loop>>

EnvObserve ==
    /\ \E agent_name \in {"sender", "receiver", "observer"} :
          LET r == observe(env, agent_name)
          IN  call' = Call("observe", <<agent_name>>, r.raised, r.ret)
    /\ UNCHANGED <<cfg, env, gene_heap, urn, creature_heap, population, new_population, loop>>

EnvStep ==
    /\ \E action \in Range(cfg.num_states) \cup Range(cfg.num_messages) :
          LET r == step(env, action)
          IN  /\ env' = r.env
              /\ call' = Call("step", <<action>>, r.raised, None)
    /\ UNCHANGED <<cfg, gene_heap, urn, creature_heap, population, new_population, loop>>

EnvNext == EnvReset \/ EnvObserve \/ EnvStep

SpecEnv == EnvSpecInit /\ [][EnvNext]_vars

\* ---- UrnAgent ----
UrnSpecInit ==
    /\ cfg = [Setting(0, 0, Random, 0, FALSE, 0, 1) EXCEPT
                 !.num_states = 2, !.num_messages = 2]
    /\ env = EnvNew(cfg.num_states, cfg.num_messages)
    /\ \E draw \in InitDraws(GeneSize(cfg, "sender"), cfg.min_bias, cfg.max_bias, cfg.init_bias) :
          gene_heap = (1 :> GeneInit(GeneSize(cfg, "sender"), cfg.min_bias, cfg.max_bias,
                                     cfg.init_bias, draw))
    /\ urn = UrnAgentInit(1, gene_heap[1])
    /\ call = NoCall
    /\ creature_heap = EmptyHeap
    /\ population = <<>>
    /\ new_population = <<>>
    /\ loop = LoopOff

\* the reward the urn has taken in and the reward still in its buffer
RECURSIVE Pending(_)
Pending(buf) == IF buf = <<>> THEN 0 ELSE Head(buf)[3] + Pending(Tail(buf))
Balls(agent) == SumTo([obs \in Range(agent.num_obs) |-> agent.urn_sum_balls[obs]], agent.num_obs)
Initial(agent) == SumTo([obs \in Range(agent.num_obs) |->
                            SumTo(UrnAgentInit(1, gene_heap[1]).urn_balls[obs], agent.num_choices)],
                        agent.num_obs)

UrnGetAction ==
    /\ \E obs \in Range(urn.num_obs) :
          LET r == get_action(urn, obs)
          IN  IF r.raised # ""
              THEN call' = Call("get_action", <<obs>>, r.raised, None)
              ELSE \E choice \in r.choices : call' = Call("get_action", <<obs>>, "", Some(choice))
    /\ UNCHANGED <<cfg, env, gene_heap, urn, creature_heap, population, new_population, loop>>

UrnStore ==
    /\ Len(urn.train_buf) < MaxBuf
    /\ \E obs \in Range(urn.num_obs), choice \in Range(urn.num_choices) :
          /\ urn' = store_buffer(urn, obs, choice)
          /\ call' = Call("store_buffer", <<obs, choice>>, "", None)
    /\ UNCHANGED <<cfg, env, gene_heap, creature_heap, population, new_population, loop>>

UrnReward ==
    /\ \E reward \in 0 .. MaxReward :
          /\ Balls(urn) - Initial(urn) + Pending(urn.train_buf) + reward <= MaxBalls
          /\ urn' = update_reward(urn, reward)
          /\ call' = Call("update_reward", <<reward>>, "", None)
    /\ UNCHANGED <<cfg, env, gene_heap, creature_heap, population, new_population, loop>>

UrnTrain ==
    /\ urn' = train(urn)
    /\ call' = Call("train", <<>>, "", None)
    /\ UNCHANGED <<cfg, env, gene_heap, creature_heap, population, new_population, loop>>

UrnNext == UrnGetAction \/ UrnStore \/ UrnReward \/ UrnTrain

SpecUrn == UrnSpecInit /\ [][UrnNext]_vars

(***************************************************************************)
(* Properties                                                              *)
(***************************************************************************)
Members(pop)  == {pop[j] : j \in 1 .. Len(pop)}
GenesOf(cid)  == {creature_heap[cid].bias_genes[r] : r \in Roles}
Cells(size)   == Range(size[1]) \X Range(size[2])
Bred(cid)     == cid \notin Members(population)

\* C1: the population holds exactly pop_size creatures, at the start of every
\* generation and after every generational replacement (in fact in every state
\* of the run), whatever the lifespans and with crossover on or off.
C1_PopulationSize ==
    /\ Len(population) = cfg.pop_size
    /\ Cardinality(Members(population)) = cfg.pop_size
    /\ Members(population) \subseteq DOMAIN creature_heap

\* two replacements are over, and the second one both carried a creature over
\* and bred one
C1_Witness ==
    /\ loop.pc = "done"
    /\ loop.gen = 2
    /\ Len(population) = 2
    /\ \E a, b \in Members(population) :
          creature_heap[a].fitness > 0 /\ creature_heap[b].fitness = 0

\* C2: no Gene object belongs to two different creatures of the population (nor
\* of the population being built) at the same time.
NoSharedGene(pop) ==
    \A a, b \in 1 .. Len(pop) :
        pop[a] # pop[b] => GenesOf(pop[a]) \cap GenesOf(pop[b]) = {}

C2_NoSharedGene == NoSharedGene(population) /\ NoSharedGene(new_population)

\* C3: every value of every Gene lies in [min_val, max_val], after construction
\* with 'random' or with any literal, and after any crossover and mutate calls.
ValuesInBounds(g) ==
    \A p \in Cells(g.size) : g.min_val <= g.values[p[1]][p[2]] /\ g.values[p[1]][p[2]] <= g.max_val

C3_ValuesInBounds == \A id \in DOMAIN gene_heap : ValuesInBounds(gene_heap[id])

\* C4: after reset() an episode is exactly two steps.  A step that is accepted is
\* either the sender's (turn sender, not done: the action becomes the message,
\* the turn passes to the receiver, done stays false and success unset) or the
\* receiver's (success becomes action = hidden state, done becomes true); reset()
\* gives the turn to the sender; and success is set exactly when done is true.
C4_StepAccepted ==
    (call'.op = "step" /\ call'.raised = "") =>
        LET action == call'.args[1]
        IN  \/ /\ env.agent_selection = "sender" /\ env.done = FALSE
               /\ env'.message = Some(action)
               /\ env'.agent_selection = "receiver"
               /\ env'.done = FALSE
               /\ env'.success = None
               /\ env'.state = env.state
            \/ /\ env.agent_selection = "receiver" /\ env.done = FALSE
               /\ env'.action = Some(action)
               /\ env'.success = Some(env.state = Some(action))
               /\ env'.done = TRUE
               /\ env'.state = env.state /\ env'.message = env.message

C4_AfterReset ==
    call'.op = "reset" =>
        env'.agent_selection = "sender" /\ env'.done = FALSE /\ env'.success = None

C4_EpisodeTwoSteps ==
    /\ []((env.success # None) <=> (env.done = TRUE))
    /\ [][C4_StepAccepted /\ C4_AfterReset]_vars

\* the receiver's step of an episode has been taken and the episode succeeded
C4_Witness ==
    /\ call.op = "step" /\ call.raised = ""
    /\ env.done = TRUE /\ env.success = Some(TRUE)
    /\ env.action = env.state /\ env.message # env.state

\* C5: step(action) on a finished episode raises AssertionError and changes no
\* field of the environment; only reset() ends the done state.
C5_StepWhenDone ==
    [][/\ (env.done = TRUE /\ call'.op = "step") =>
              (call'.raised = "AssertionError" /\ env' = env)
       /\ (env.done = TRUE /\ env'.done = FALSE) => call'.op = "reset"]_vars

\* a step was refused on a finished episode
C5_Witness ==
    /\ call.op = "step" /\ call.raised = "AssertionError"
    /\ env.done = TRUE /\ env.action # Some(call.args[1])

\* C6: urn_sum_balls[obs] is the sum of urn_balls[obs] and no count is negative,
\* for Gene values >= 0 and rewards >= 0, after any calls of store_buffer,
\* update_reward and train.
C6_SumIsTotal ==
    \A obs \in Range(urn.num_obs) :
        /\ urn.urn_sum_balls[obs] = SumTo(urn.urn_balls[obs], urn.num_choices)
        /\ \A c \in Range(urn.num_choices) : urn.urn_balls[obs][c] >= 0

\* a train() has put reward into an urn whose Gene is not all zero
C6_Witness ==
    /\ call.op = "train"
    /\ Balls(urn) > Initial(urn)
    /\ \E p \in Cells(gene_heap[1].size) : gene_heap[1].values[p[1]][p[2]] > 0
    /\ C6_SumIsTotal

\* C7: with min_bias >= 0 and success rewards >= 0, every ball count of every
\* learner of every creature is at least 1.
C7_BallsAtLeastOne ==
    (cfg.min_bias >= 0 /\ \A r \in Roles : cfg.success_reward[r] >= 0) =>
        \A cid \in DOMAIN creature_heap : \A r \in Roles :
            LET agent == creature_heap[cid].agents[r]
            IN  \A obs \in Range(agent.num_obs) : \A c \in Range(agent.num_choices) :
                    agent.urn_balls[obs][c] >= 1

\* C8: train() adds each record's reward to the count of its (obs, choice) and to
\* the sum of its obs, changes no other count, empties the buffer, and a second
\* train() changes nothing.
RECURSIVE RewardWhere(_, _, _)
RewardWhere(buf, obs, choices) ==
    IF buf = <<>> THEN 0
    ELSE (IF Head(buf)[1] = obs /\ Head(buf)[2] \in choices THEN Head(buf)[3] ELSE 0)
         + RewardWhere(Tail(buf), obs, choices)

C8_TrainStep ==
    call'.op = "train" =>
        /\ \A obs \in Range(urn.num_obs) :
              /\ \A c \in Range(urn.num_choices) :
                    urn'.urn_balls[obs][c] =
                        urn.urn_balls[obs][c] + RewardWhere(urn.train_buf, obs, {c})
              /\ urn'.urn_sum_balls[obs] =
                    urn.urn_sum_balls[obs] + RewardWhere(urn.train_buf, obs, Range(urn.num_choices))
        /\ urn'.train_buf = <<>>
        /\ train(urn') = urn'

C8_Train == [][C8_TrainStep]_vars

\* a train() has drained a buffer of two rewarded records
C8_Witness ==
    /\ call.op = "train"
    /\ urn.train_buf = <<>>
    /\ Cardinality({p \in Cells(gene_heap[1].size) :
          urn.urn_balls[p[1]][p[2]] > 1 + gene_heap[1].values[p[1]][p[2]]}) >= 2

\* C9: with crossover disabled and mutation rate 0, the creature constructed for
\* a slot has, for both roles and at every position, the Gene values of one
\* single member of the tournament, and no member of the tournament (with
\* tornament_size = pop_size: no creature of the population) has a higher fitness
\* than that member.
C9_CreateStep ==
    (/\ loop.pc = "create" /\ loop'.pc = "replace"
     /\ cfg.do_crossover = FALSE /\ cfg.mutation_rate = 0) =>
        LET child == creature_heap'[new_population'[Len(new_population')]]
        IN  \E w \in Members(loop.tournament) :
               /\ \A t \in Members(loop.tournament) :
                     creature_heap[t].fitness <= creature_heap[w].fitness
               /\ cfg.tornament_size = cfg.pop_size =>
                     \A t \in Members(population) :
                        creature_heap[t].fitness <= creature_heap[w].fitness
               /\ \A r \in Roles :
                     /\ gene_heap'[child.bias_genes[r]].values =
                           gene_heap[creature_heap[w].bias_genes[r]].values
                     /\ child.agents[r].bias_gene = child.bias_genes[r]

C9_SingleParent == [][C9_CreateStep]_vars

\* an offspring was bred without crossover and mutation from a population whose
\* two creatures differ in fitness and in Gene values
C9_Witness ==
    /\ loop.pc = "replace" /\ loop.i >= 1
    /\ cfg.do_crossover = FALSE /\ cfg.mutation_rate = 0
    /\ Bred(new_population[Len(new_population)])
    /\ \E a, b \in Members(population) :
          /\ creature_heap[a].fitness > creature_heap[b].fitness
          /\ \A r \in Roles : gene_heap[creature_heap[a].bias_genes[r]].values #
                              gene_heap[creature_heap[b].bias_genes[r]].values
          /\ \A r \in Roles :
                gene_heap[creature_heap[new_population[Len(new_population)]].bias_genes[r]].values =
                gene_heap[creature_heap[a].bias_genes[r]].values

\* C10: the Gene returned by crossover has at every position the value of one of
\* the two parents at that position.
C10_CrossoverPicks ==
    call.op = "crossover" =>
        LET self  == gene_heap[call.args[1]]
            other == gene_heap[call.args[2]]
            child == gene_heap[call.ret[1]]
        IN  \A p \in Cells(self.size) :
                child.values[p[1]][p[2]] \in {self.values[p[1]][p[2]], other.values[p[1]][p[2]]}

\* a crossover took one position from each of two different parents
C10_Witness ==
    /\ call.op = "crossover"
    /\ LET self  == gene_heap[call.args[1]]
           other == gene_heap[call.args[2]]
           child == gene_heap[call.ret[1]]
       IN  /\ \A p \in Cells(self.size) : self.values[p[1]][p[2]] # other.values[p[1]][p[2]]
           /\ child.values # self.values
           /\ child.values # other.values

\* C11: crossover(other) leaves the values of both parents unchanged and returns
\* a Gene object that is neither of them; mutate(rate) changes nothing but the
\* values of the Gene it is called on and returns that same object.
C11_Step ==
    /\ call'.op = "crossover" =>
          /\ call'.ret[1] \notin DOMAIN gene_heap
          /\ call'.ret[1] \notin {call'.args[1], call'.args[2]}
          /\ DOMAIN gene_heap' = DOMAIN gene_heap \cup {call'.ret[1]}
          /\ \A k \in DOMAIN gene_heap : gene_heap'[k] = gene_heap[k]
    /\ call'.op = "mutate" =>
          /\ call'.ret = Some(call'.args[1])
          /\ DOMAIN gene_heap' = DOMAIN gene_heap
          /\ \A k \in DOMAIN gene_heap :
                gene_heap'[k] = [gene_heap[k] EXCEPT
                                    !.values = IF k = call'.args[1] THEN gene_heap'[k].values ELSE @]

C11_Frame == [][C11_Step]_vars

\* a crossover of two different Gene objects with different values returned a
\* third object that has the values of the first parent
C11_Witness ==
    /\ call.op = "crossover"
    /\ call.args[1] # call.args[2]
    /\ call.ret[1] \notin {call.args[1], call.args[2]}
    /\ gene_heap[call.args[1]].values # gene_heap[call.args[2]].values
    /\ gene_heap[call.ret[1]].values = gene_heap[call.args[1]].values

\* C12: mutate(0) leaves every value of the Gene unchanged; mutate(1) puts at
\* every position a draw from [min_val, max_val], whatever the value was (rates
\* are in units of 1/2, so rate 1 is written 2).
C12_Step ==
    call'.op = "mutate" =>
        LET a == call'.args[1]
        IN  /\ call'.args[2] = 0 => gene_heap'[a].values = gene_heap[a].values
            /\ call'.args[2] = 2 => ValuesInBounds(gene_heap'[a])

C12_MutateZeroOne == [][C12_Step]_vars

\* mutate(1) was called on a Gene of a configuration whose literal lies outside
\* the bounds: every value is now inside them
C12_Witness ==
    /\ call.op = "mutate" /\ call.args[2] = 2
    /\ LET g == gene_heap[call.args[1]]
       IN  /\ ~ (g.min_val <= g.init_values.value /\ g.init_values.value <= g.max_val)
           /\ ~ g.init_values.random
           /\ ValuesInBounds(g)

\* C13: every creature has lifespan >= 1, when it is constructed and in every
\* later state: the generational replacement never lowers a lifespan below 1.
C13_LifespanAtLeastOne ==
    /\ \A cid \in DOMAIN creature_heap : creature_heap[cid].lifespan >= 1
    /\ \A j \in 1 .. Len(population) : creature_heap[population[j]].lifespan >= 1

\* a creature has been carried over and starts its second generation with the
\* lifespan 1 that the replacement left it
C13_Witness ==
    /\ loop.pc = "episode" /\ loop.gen = 1 /\ loop.episode = 0
    /\ \E j \in 1 .. Len(population) :
          /\ creature_heap[population[j]].lifespan = 1
          /\ creature_heap[population[j]].fitness > 0

\* C14: a creature's fitness is 0 when it is constructed, never decreases while
\* the creature is in the population, and no step of the generational
\* replacement changes it: a carried-over creature starts the next generation
\* with the fitness it had at the end of the previous one.
Replacing == loop.pc \in {"replace", "cross", "mutate", "create"}

C14_Step ==
    /\ \A cid \in (DOMAIN creature_heap') \ (DOMAIN creature_heap) :
          creature_heap'[cid].fitness = 0
    /\ \A cid \in Members(population) \cap Members(population') :
          creature_heap'[cid].fitness >= creature_heap[cid].fitness
    /\ Replacing =>
          \A cid \in (DOMAIN creature_heap) \cap (DOMAIN creature_heap') :
             creature_heap'[cid].fitness = creature_heap[cid].fitness

C14_Fitness ==
    /\ (loop.gen = 0 /\ loop.episode = 0 /\ loop.pc = "episode") =>
          \A cid \in DOMAIN creature_heap : creature_heap[cid].fitness = 0
    /\ [][C14_Step]_vars

\* a creature holds more fitness than the episodes of one generation can give:
\* it kept the fitness of its first generation when it was carried over
C14_Witness ==
    /\ loop.gen = 1
    /\ \E j \in 1 .. Len(population) :
          creature_heap[population[j]].fitness >
             cfg.num_episodes_per_creature * cfg.pop_size *
                (cfg.success_fitness["sender"] + cfg.success_fitness["receiver"])

\* C15: a tournament size larger than the population size is rejected before the
\* loop starts: under such a configuration no episode is started, no generation
\* is counted and no creature's fitness or ball count differs from its initial
\* value.
C15_RejectedBeforeLoop ==
    cfg.tornament_size > cfg.pop_size =>
        /\ loop.gen = 0 /\ loop.episode = 0
        /\ loop.creatures = None
        /\ env.message = None
        /\ \A cid \in DOMAIN creature_heap :
              /\ creature_heap[cid].fitness = 0
              /\ \A r \in Roles :
                    creature_heap[cid].agents[r] =
                       UrnAgentInit(creature_heap[cid].bias_genes[r],
                                    gene_heap[creature_heap[cid].bias_genes[r]])

\* C16: the loop stops only after exactly num_gen generations; every generation
\* runs exactly num_episodes_per_creature * pop_size episodes; every episode ends
\* after exactly one decision of the sender and one of the receiver (each
\* decision leaves one record in the buffer of the learner that took it).
Decisions(role) ==
    Len(creature_heap[loop.creatures[role]].agents[role].train_buf)

C16_Counts ==
    /\ loop.gen <= cfg.num_gen
    /\ loop.pc = "done" => loop.gen = cfg.num_gen
    /\ loop.episode <= cfg.num_episodes_per_creature * cfg.pop_size
    /\ Replacing => loop.episode = cfg.num_episodes_per_creature * cfg.pop_size
    /\ loop.pc \in {"turn", "step"} =>
          /\ env.done = FALSE
          /\ Decisions("sender") = (IF env.agent_selection = "sender" THEN 0 ELSE 1)
          /\ Decisions("receiver") = 0
    /\ (loop.pc = "credit" /\ loop.role = 1) =>
          /\ env.done = TRUE
          /\ Decisions("sender") = 1
          /\ Decisions("receiver") = 1

C16_RunsAllGenerations ==
    /\ C16_Counts
    /\ loop.pc \in {"done", "crashed"} => (loop.pc = "done" /\ loop.gen = cfg.num_gen)

\* C17: with all ball counts >= 1, a train() whose buffer holds a reward r > 0
\* for one pair (obs, choice) and for no other pair does not lower the draw
\* probability urn_balls[obs][choice] / urn_sum_balls[obs] of that choice and
\* does not raise the draw probability of any other choice under obs
\* (p / q <= p2 / q2 is written p * q2 <= p2 * q, all sums being positive).
C17_Step ==
    call'.op = "train" =>
        \A obs \in Range(urn.num_obs), choice \in Range(urn.num_choices) :
           (/\ \A o \in Range(urn.num_obs), c \in Range(urn.num_choices) : urn.urn_balls[o][c] >= 1
            /\ RewardWhere(urn.train_buf, obs, {choice}) > 0
            /\ \A o \in Range(urn.num_obs), c \in Range(urn.num_choices) :
                  <<o, c>> # <<obs, choice>> => RewardWhere(urn.train_buf, o, {c}) = 0)
           => /\ urn.urn_sum_balls[obs] > 0 /\ urn'.urn_sum_balls[obs] > 0
              /\ urn.urn_balls[obs][choice] * urn'.urn_sum_balls[obs]
                    <= urn'.urn_balls[obs][choice] * urn.urn_sum_balls[obs]
              /\ \A c \in Range(urn.num_choices) \ {choice} :
                    urn'.urn_balls[obs][c] * urn.urn_sum_balls[obs]
                       <= urn.urn_balls[obs][c] * urn'.urn_sum_balls[obs]

C17_Probability == [][C17_Step]_vars

\* a train() has put reward on one choice of an observation whose other choice
\* has a Gene bias: one probability went up and the other one down
C17_Witness ==
    /\ call.op = "train" /\ urn.train_buf = <<>>
    /\ \E obs \in Range(urn.num_obs), choice \in Range(urn.num_choices) :
          /\ urn.urn_balls[obs][choice] > 1 + gene_heap[1].values[obs][choice]
          /\ \A o \in Range(urn.num_obs), c \in Range(urn.num_choices) :
                <<o, c>> # <<obs, choice>> =>
                   /\ urn.urn_balls[o][c] = 1 + gene_heap[1].values[o][c]
                   /\ o = obs => gene_heap[1].values[o][c] > 0

\* C18: at a generation boundary a creature whose lifespan is above 1 stays in
\* its slot with its lifespan lowered by exactly 1, and its fitness, the values
\* of its Genes and the ball counts of its learners are not changed by any step
\* of the replacement, with crossover on or off.  Slot j is carried over when
\* the loop has copied it to new_population, or has not reached it yet and its
\* lifespan is above 1.
CarriedOver(j) ==
    IF j <= Len(new_population) THEN new_population[j] = population[j]
    ELSE creature_heap[population[j]].lifespan > 1

C18_Step ==
    Replacing =>
        \A j \in 1 .. Len(population) :
           CarriedOver(j) =>
              LET cid == population[j]
                  own == loop.i + 1 = j /\ Len(new_population') = j
              IN  /\ cid \in DOMAIN creature_heap'
                  /\ creature_heap'[cid].lifespan =
                        creature_heap[cid].lifespan - (IF own THEN 1 ELSE 0)
                  /\ own => new_population'[j] = cid
                  /\ population' # population => population'[j] = cid
                  /\ creature_heap'[cid].fitness = creature_heap[cid].fitness
                  /\ creature_heap'[cid].agents = creature_heap[cid].agents
                  /\ creature_heap'[cid].bias_genes = creature_heap[cid].bias_genes
                  /\ \A r \in Roles :
                        gene_heap'[creature_heap[cid].bias_genes[r]].values =
                           gene_heap[creature_heap[cid].bias_genes[r]].values

C18_CarriedOverUnchanged == [][C18_Step]_vars

\* C19: a creature constructed with lifespan L is a member of the population for
\* exactly L consecutive generations of episodes and is replaced at the L-th
\* boundary after its construction.  loop.life records the lifespan drawn and
\* the first generation of each creature; Played is the number of generations a
\* member has been in the population for, the current one included.
Played(cid) == loop.gen - loop.life[cid].since + 1

C19_Members ==
    loop.pc \notin {"done", "crashed"} =>
        \A cid \in Members(population) :
           /\ Played(cid) >= 1
           /\ Played(cid) <= loop.life[cid].drawn
           /\ creature_heap[cid].lifespan =
                 loop.life[cid].drawn - (Played(cid) - 1)
                    - (IF Replacing /\ cid \in Members(new_population) THEN 1 ELSE 0)

C19_Step ==
    /\ population' = population \/ (loop.pc = "replace" /\ loop'.gen = loop.gen + 1)
    /\ population' # population =>
          /\ \A cid \in Members(population) \ Members(population') :
                Played(cid) = loop.life[cid].drawn
          /\ \A cid \in Members(population) \cap Members(population') :
                Played(cid) < loop.life[cid].drawn
          /\ \A cid \in Members(population') \ Members(population) :
                /\ loop.life[cid].since = loop'.gen
                /\ creature_heap'[cid].lifespan = loop.life[cid].drawn
    /\ \A cid \in (DOMAIN creature_heap') \ (DOMAIN creature_heap) :
          cid \notin Members(population) /\ cid \notin Members(population')

C19_LivesItsLifespan == []C19_Members /\ [][C19_Step]_vars

\* the run is over and the population holds a creature that was bred with
\* lifespan 2 at the first boundary and carried over at the second
C19_Witness ==
    /\ loop.pc = "done" /\ loop.gen = 2
    /\ \E j \in 1 .. Len(population) :
          /\ loop.life[population[j]].drawn = 2
          /\ loop.life[population[j]].since = 1
          /\ creature_heap[population[j]].lifespan = 1

\* C20: every tournament consists of tornament_size pairwise distinct creatures
\* of the population as it was during the generation's episodes (population is
\* not changed before the replacement is complete): a creature bred at this
\* boundary is never a member or a winner, a creature that expires at this
\* boundary can be.
C20_Drawn ==
    loop.pc \in {"cross", "mutate", "create"} =>
        /\ Len(loop.tournament) = cfg.tornament_size
        /\ \A a, b \in 1 .. Len(loop.tournament) :
              a # b => loop.tournament[a] # loop.tournament[b]
        /\ Members(loop.tournament) \subseteq Members(population)
        /\ Members(loop.tournament) \cap (Members(new_population) \ Members(population)) = {}
        /\ Members(loop.winners) \subseteq Members(loop.tournament)
        /\ Len(loop.winners) >= 1

C20_Tournament ==
    /\ []C20_Drawn
    /\ [][(Replacing /\ loop'.gen = loop.gen) => population' = population]_vars

\* the second slot is being replaced after the first one was: the tournament
\* holds the expiring creature of the slot, new_population holds a bred creature
C20_Witness ==
    /\ loop.pc = "create" /\ loop.i = 1
    /\ Bred(new_population[1])
    /\ population[2] \in Members(loop.tournament)
    /\ creature_heap[population[2]].lifespan = 1
    /\ Len(loop.tournament) = 2

\* the two creatures whose Genes are crossed, once both roles are crossed and
\* before the first mutate
Crossed == cfg.do_crossover /\ loop.pc = "mutate" /\ loop.role = 1

\* C21: with crossover enabled and tournament_size >= 2, the two parents of an
\* offspring are two distinct members of the tournament, no other member of the
\* tournament has a higher fitness than either of them, and for each role the
\* offspring's Gene, before mutation, has at every position the value of one of
\* the two parents' Genes of that role.
C21_Parents ==
    (Crossed /\ cfg.tornament_size >= 2) =>
        LET w == loop.winners
            T == loop.tournament
        IN  /\ Len(w) = 2
            /\ w[1] # w[2]
            /\ {w[1], w[2]} \subseteq Members(T)
            /\ \A m \in Members(T) \ {w[1], w[2]} : \A k \in 1 .. 2 :
                  creature_heap[w[k]].fitness >= creature_heap[m].fitness
            /\ \A r \in Roles :
                  LET child == gene_heap[loop.new_genes[r]]
                      self  == gene_heap[creature_heap[w[1]].bias_genes[r]]
                      other == gene_heap[creature_heap[w[2]].bias_genes[r]]
                  IN  \A p \in Cells(child.size) :
                         child.values[p[1]][p[2]] \in
                            {self.values[p[1]][p[2]], other.values[p[1]][p[2]]}

\* a tournament of three creatures of three different fitnesses whose two best
\* differ in both Genes, and an offspring that has one Gene of each
C21_Witness ==
    /\ Crossed
    /\ Len(loop.tournament) = 3
    /\ \A a, b \in 1 .. 3 : a # b =>
          creature_heap[loop.tournament[a]].fitness # creature_heap[loop.tournament[b]].fitness
    /\ loop.winners[1] # loop.tournament[1]
    /\ LET genes(k, r) == gene_heap[creature_heap[loop.winners[k]].bias_genes[r]].values
           child(r)    == gene_heap[loop.new_genes[r]].values
       IN  /\ \A r \in Roles : genes(1, r) # genes(2, r)
           /\ child("sender") = genes(1, "sender")
           /\ child("receiver") = genes(2, "receiver")

\* the step that ends an episode: the train() of the last role
EpisodeEnds == loop.pc = "train" /\ loop.role = Len(agent_names)

\* the finished episode was a success: the receiver's action is the hidden state
Succeeded == env.done /\ env.action = env.state

\* C22: after a successful episode the fitness of the sender creature has grown
\* by exactly success_fitness[sender] and that of the receiver creature by exactly
\* success_fitness[receiver], a creature paired with itself has gained both, and
\* no other fitness has changed; after a failed episode no fitness has changed.
C22_Step ==
    EpisodeEnds =>
        LET before  == loop.start[1]
            gain(cid, role) == IF Succeeded /\ loop.creatures[role] = cid
                               THEN cfg.success_fitness[role] ELSE 0
        IN  /\ DOMAIN creature_heap' = DOMAIN before
            /\ \A cid \in DOMAIN before :
                  creature_heap'[cid].fitness =
                      before[cid].fitness + gain(cid, "sender") + gain(cid, "receiver")

C22_FitnessGain == [][C22_Step]_vars

\* two episodes are over: one creature played with itself and succeeded, and the
\* last episode failed
C22_Witness ==
    /\ cfg.pop_size = 2
    /\ loop.pc = "episode"
    /\ loop.gen = 0
    /\ loop.episode = 2
    /\ env.done /\ env.action # env.state
    /\ creature_heap[population[1]].fitness =
          cfg.success_fitness["sender"] + cfg.success_fitness["receiver"]
    /\ creature_heap[population[2]].fitness = 0

\* C23: after a successful episode the sender learner of the sender creature has
\* exactly success_reward[sender] more balls at (hidden state, message), the
\* receiver learner of the receiver creature has exactly success_reward[receiver]
\* more balls at (message, receiver action), and every other ball count of every
\* learner is what it was when the episode started; after a failed episode every
\* ball count is what it was.
C23_Step ==
    EpisodeEnds =>
        LET before == loop.start[1]
            at(role) == IF role = "sender" THEN <<env.state[1], env.message[1]>>
                        ELSE <<env.message[1], env.action[1]>>
            added(cid, role, obs, c) ==
                IF Succeeded /\ loop.creatures[role] = cid /\ at(role) = <<obs, c>>
                THEN cfg.success_reward[role] ELSE 0
        IN  \A cid \in DOMAIN before : \A role \in Roles :
                LET old == before[cid].agents[role]
                    new == creature_heap'[cid].agents[role]
                IN  \A obs \in Range(old.num_obs) : \A c \in Range(old.num_choices) :
                        new.urn_balls[obs][c] = old.urn_balls[obs][c] + added(cid, role, obs, c)

C23_BallsGain == [][C23_Step]_vars

\* the first episode is over and was a success of two different creatures, with a
\* message that differs from the hidden state; the two rewarded counts have grown
C23_Witness ==
    /\ cfg.pop_size = 2
    /\ cfg.success_reward["sender"] # cfg.success_reward["receiver"]
    /\ loop.pc = "episode"
    /\ loop.gen = 0
    /\ loop.episode = 1
    /\ Succeeded
    /\ env.message # env.state
    /\ \E a, b \in Members(population) :
          /\ a # b
          /\ creature_heap[a].agents["sender"].urn_balls[env.state[1]][env.message[1]] =
                1 + cfg.success_reward["sender"]
          /\ creature_heap[b].agents["receiver"].urn_balls[env.message[1]][env.action[1]] =
                1 + cfg.success_reward["receiver"]

\* an episode is running
InEpisode == loop.pc \in {"turn", "step", "store", "credit", "train"}

\* the loop is between two episodes, or past the episodes of the generation
BetweenEpisodes == loop.pc \in {"episode", "replace", "cross", "mutate", "create", "done"}

Buffer(h, cid, role) == h[cid].agents[role].train_buf

\* C24: between episodes the pending buffer of every learner is empty and during
\* an episode no buffer holds more than one record; every train() of the loop is
\* on a learner that holds the one record of its turn in this episode, empties
\* that buffer and leaves the other buffers alone, so that each learner that
\* acted is trained exactly once before the next episode starts, also when the
\* sender and the receiver are the same creature.
C24_Step ==
    /\ BetweenEpisodes =>
          \A cid \in DOMAIN creature_heap : \A r \in Roles : Buffer(creature_heap, cid, r) = <<>>
    /\ BetweenEpisodes' =>
          \A cid \in DOMAIN creature_heap' : \A r \in Roles : Buffer(creature_heap', cid, r) = <<>>
    /\ InEpisode' =>
          \A cid \in DOMAIN creature_heap' : \A r \in Roles : Len(Buffer(creature_heap', cid, r)) <= 1
    /\ loop.pc = "train" =>
          LET name == agent_names[loop.role]
              cid  == loop.creatures[name]
          IN  /\ Len(Buffer(creature_heap, cid, name)) = 1
              /\ Buffer(creature_heap', cid, name) = <<>>
              /\ \A c \in DOMAIN creature_heap : \A r \in Roles :
                    <<c, r>> # <<cid, name>> =>
                        Buffer(creature_heap', c, r) = Buffer(creature_heap, c, r)

C24_Buffers == [][C24_Step]_vars

\* a creature that plays with itself has acted in both roles: each of its two
\* learners holds one record, and the other creature's learners hold none
C24_Witness ==
    /\ loop.pc = "credit"
    /\ loop.role = 1
    /\ loop.episode = 1
    /\ loop.creatures["sender"] = loop.creatures["receiver"]
    /\ \A r \in Roles : Len(Buffer(creature_heap, loop.creatures["sender"], r)) = 1
    /\ \E c \in Members(population) :
          /\ c # loop.creatures["sender"]
          /\ \A r \in Roles : Buffer(creature_heap, c, r) = <<>>

\* the learner that acts in the running turn, and the record of the turn
Acting == creature_heap[loop.creatures[loop.agent_name[1]]].agents[loop.agent_name[1]]
Record == <<loop.obs[1], loop.action[1], 0>>

\* C25 as stated: when the loop is about to advance the environment by
\* step(action), the (observation, action) record of the turn is already the
\* last record of the acting learner's buffer.
C25_StoredBeforeStep ==
    loop.pc = "step" =>
        /\ Acting.train_buf # <<>>
        /\ Acting.train_buf[Len(Acting.train_buf)] = Record

\* C25, amended: in every turn of an episode the environment is advanced by
\* step(action) first, with the acting learner's buffer still empty and no
\* learner touched, and the (observation, action) record is appended to the
\* acting learner's buffer right after it, before the next turn or the credit
\* of the episode and with the environment left as step(action) made it.
C25_Step ==
    /\ loop.pc = "step" =>
          /\ Acting.train_buf = <<>>
          /\ creature_heap' = creature_heap
          /\ env' = step(env, loop.action[1]).env
          /\ loop'.pc = "store"
    /\ loop.pc = "store" =>
          /\ IF loop.agent_name[1] = "sender"
             THEN env.message = loop.action /\ env.agent_selection = "receiver"
             ELSE env.action = loop.action /\ env.done
          /\ env' = env
          /\ Acting.train_buf = <<>>
          /\ creature_heap'[loop.creatures[loop.agent_name[1]]].agents[loop.agent_name[1]].train_buf
                = <<Record>>
          /\ loop'.pc = IF env.done THEN "credit" ELSE "turn"

C25_StoredAfterStep == [][C25_Step]_vars

\* the receiver's action has ended the episode and its record is not stored yet;
\* the sender's record is
C25_Witness ==
    /\ loop.pc = "store"
    /\ loop.agent_name = Some("receiver")
    /\ env.done
    /\ env.action = loop.action
    /\ Acting.train_buf = <<>>
    /\ creature_heap[loop.creatures["sender"]].agents["sender"].train_buf =
          <<<<env.state[1], env.message[1], 0>>>>

\* C26: after reset() and before the sender's step the episode state is fresh:
\* the turn is the sender's, done is false, success is unset, the state holds no
\* message and no receiver action of an earlier episode, and observe('receiver')
\* returns no message.
C26_FreshAfterReset ==
    /\ call.op = "reset" =>
          /\ env.agent_selection = "sender" /\ env.done = FALSE /\ env.success = None
          /\ env.message = None /\ env.action = None
    /\ (/\ env.agent_selection = "sender" /\ env.done = FALSE
        /\ call.op = "observe" /\ call.args = <<"receiver">>) =>
          call.raised # ""

\* C27: in every episode run by the loop the observation given to the sender's
\* learner is the hidden state drawn for that episode, and the observation given
\* to the receiver's learner is the message the sender's learner chose in that
\* same episode (the choice of the record the sender stored in this episode).
C27_Observations ==
    /\ loop.pc \in {"step", "store"} =>
          LET sent == Buffer(creature_heap, loop.creatures["sender"], "sender")
          IN  IF loop.agent_name = Some("sender")
              THEN loop.obs = env.state /\ sent = <<>>
              ELSE /\ loop.agent_name = Some("receiver")
                   /\ Len(sent) = 1
                   /\ sent[1][1] = env.state[1]
                   /\ loop.obs = Some(sent[1][2])
    /\ loop.pc = "credit" /\ loop.role = 1 =>
          LET sent == Buffer(creature_heap, loop.creatures["sender"], "sender")
              recv == Buffer(creature_heap, loop.creatures["receiver"], "receiver")
          IN  /\ Len(sent) = 1 /\ Len(recv) = 1
              /\ sent[1][1] = env.state[1]
              /\ recv[1][1] = sent[1][2]

\* the receiver's turn of the second episode: its observation is the message of
\* this episode, and the first episode was a success with the other message
C27_Witness ==
    /\ loop.pc = "step"
    /\ loop.episode = 1
    /\ loop.agent_name = Some("receiver")
    /\ loop.obs = env.message
    /\ \E cid \in Members(population) : \E s \in Range(cfg.num_states) :
       \E m \in Range(cfg.num_messages) :
          /\ Some(m) # loop.obs
          /\ creature_heap[cid].agents["sender"].urn_balls[s][m] > 1
          /\ \A c \in Members(population) : \A o \in Range(cfg.num_states) :
                creature_heap[c].agents["sender"].urn_balls[o][loop.obs[1]] = 1

\* C28: observe(role) with a role that is neither sender nor receiver raises; it
\* returns no value.
C28_UnknownRoleRaises ==
    (call.op = "observe" /\ call.args[1] \notin Roles) => call.raised # ""

\* C29: update_reward(delta) adds delta to the reward of the last record of the
\* buffer, on top of what earlier calls have put there; every earlier record,
\* the observation and choice of the last record, the length of the buffer and
\* every ball count stay as they are, and with an empty buffer nothing changes.
C29_Step ==
    call'.op = "update_reward" =>
        LET delta == call'.args[1]
            n     == Len(urn.train_buf)
        IN  /\ urn'.urn_balls = urn.urn_balls
            /\ urn'.urn_sum_balls = urn.urn_sum_balls
            /\ Len(urn'.train_buf) = n
            /\ \A k \in 1 .. (n - 1) : urn'.train_buf[k] = urn.train_buf[k]
            /\ n > 0 => urn'.train_buf[n] = <<urn.train_buf[n][1], urn.train_buf[n][2],
                                              urn.train_buf[n][3] + delta>>
            /\ n = 0 => urn' = urn

C29_UpdateReward == [][C29_Step]_vars

\* two rewards of 1 have accumulated on the last of two records, and the first
\* record still has reward 0
C29_Witness ==
    /\ call.op = "update_reward"
    /\ call.args = <<1>>
    /\ Len(urn.train_buf) = 2
    /\ urn.train_buf[1][3] = 0
    /\ urn.train_buf[2][3] = 2

\* C30: Gene bounds with min_bias > max_bias are rejected at configuration time:
\* under such settings no Gene and no creature is constructed and no episode is
\* run.
C30_BoundsRejected ==
    cfg.min_bias > cfg.max_bias =>
        /\ gene_heap = EmptyHeap
        /\ creature_heap = EmptyHeap
        /\ population = <<>>
        /\ loop.gen = 0 /\ loop.episode = 0
        /\ loop.creatures = None

\* the start of an episode whose sender is drawn from slot s and whose receiver
\* is drawn from slot j
Pairing(s, j) ==
    /\ StartEpisode
    /\ loop'.sender_idx = Some(s)
    /\ loop'.creatures["receiver"] = population[j + 1]

\* the slots of the population that hold creature cid
SlotsOf(cid) == {j \in Range(Len(population)) : population[j + 1] = cid}

\* C31: under 'group' matching the receiver of every episode is in a slot whose
\* index is congruent to the sender's slot index modulo num_groups; under
\* 'uniform' matching every slot can be drawn as the receiver's for every
\* sender; under both the sender's own slot can be drawn as the receiver's.
C31_Matching ==
    /\ InEpisode =>
          /\ loop.creatures["sender"] = population[loop.sender_idx[1] + 1]
          /\ cfg.matching_bias = "group" =>
                \A j \in SlotsOf(loop.creatures["receiver"]) :
                    j % cfg.num_groups = loop.sender_idx[1] % cfg.num_groups
    /\ (loop.pc = "episode" /\ loop.episode < cfg.num_episodes_per_creature * cfg.pop_size) =>
          \A s \in Range(cfg.pop_size) :
             /\ cfg.matching_bias = "uniform" =>
                   \A j \in Range(cfg.pop_size) : ENABLED Pairing(s, j)
             /\ cfg.matching_bias \in {"group", "uniform"} => ENABLED Pairing(s, s)

\* under 'group' matching with two groups the sender of slot 0 plays with the
\* creature of slot 2
C31_Witness ==
    /\ cfg.matching_bias = "group"
    /\ cfg.num_groups < cfg.pop_size
    /\ loop.pc = "turn"
    /\ loop.sender_idx = Some(0)
    /\ loop.creatures["receiver"] = population[3]

\* the diagnostic series of the loop
Series ==
    {loop.logs.success_rate, loop.logs.fitness_mean, loop.logs.fitness_var}
    \cup {loop.logs.rewards_mean[r] : r \in Roles}
    \cup {loop.logs.bias_suc_fail_diff_mean[r] : r \in Roles}

\* C32: after g completed generations each diagnostic series (success rate,
\* fitness mean, fitness variance, mean reward per role, bias gap per role)
\* holds exactly g entries, and its k-th entry describes the k-th generation.
C32_SeriesPerGeneration ==
    \A series \in Series :
        /\ Len(series) = loop.gen
        /\ \A k \in 1 .. Len(series) : series[k] = k - 1

\* the step that constructs a creature at a generation boundary
Breeds == loop.pc = "create" /\ loop'.pc = "replace"

\* C33: a creature bred at a generation boundary is a new object that starts with
\* fitness 0, empty buffers and, for each role, ball counts equal to 1 plus the
\* values its own Gene has after mutation (and sums that agree with the counts);
\* its construction changes no creature of the population, its parents included.
C33_Step ==
    Breeds =>
        LET id    == new_population'[Len(new_population')]
            child == creature_heap'[id]
        IN  /\ id \notin DOMAIN creature_heap
            /\ child.fitness = 0
            /\ child.bias_genes = loop.new_genes
            /\ gene_heap' = gene_heap
            /\ \A r \in Roles :
                  LET g == gene_heap'[child.bias_genes[r]]
                  IN  /\ child.agents[r].train_buf = <<>>
                      /\ \A p \in Cells(g.size) :
                            child.agents[r].urn_balls[p[1]][p[2]] = 1 + g.values[p[1]][p[2]]
                      /\ \A obs \in Range(g.size[1]) :
                            child.agents[r].urn_sum_balls[obs] =
                               SumTo(child.agents[r].urn_balls[obs], g.size[2])
            /\ \A cid \in DOMAIN creature_heap : creature_heap'[cid] = creature_heap[cid]

C33_BredFresh == [][C33_Step]_vars

\* a creature has just been bred from a population whose creatures all have a
\* positive fitness and sender urns that have taken in rewards; its sender Gene
\* has a value above 0 and its urn holds 1 plus that value
C33_Witness ==
    /\ loop.pc = "replace"
    /\ new_population # <<>>
    /\ LET id == new_population[Len(new_population)]
       IN  /\ Bred(id)
           /\ creature_heap[id].fitness = 0
           /\ gene_heap[creature_heap[id].bias_genes["sender"]].values[0][0] = 1
           /\ creature_heap[id].agents["sender"].urn_balls[0][0] = 2
    /\ \A cid \in Members(population) :
          /\ creature_heap[cid].fitness > 0
          /\ creature_heap[cid].agents["sender"].urn_balls[0][0] >
                1 + gene_heap[creature_heap[cid].bias_genes["sender"]].values[0][0]

\* C34: no step of an episode changes a creature that is neither the sender nor
\* the receiver of the episode (fitness, lifespan, Genes, ball counts, buffers);
\* unless a creature plays with itself, no step changes the receiver learner of
\* the sender creature or the sender learner of the receiver creature; and no
\* step of an episode, its start included, changes a lifespan, the Genes a
\* creature holds or a Gene value.
C34_Step ==
    /\ (loop.pc = "episode" /\ loop'.pc = "turn") =>
          creature_heap' = creature_heap /\ gene_heap' = gene_heap
    /\ InEpisode =>
          LET s == loop.creatures["sender"]
              r == loop.creatures["receiver"]
          IN  /\ gene_heap' = gene_heap
              /\ DOMAIN creature_heap' = DOMAIN creature_heap
              /\ \A cid \in DOMAIN creature_heap :
                    /\ creature_heap'[cid].lifespan = creature_heap[cid].lifespan
                    /\ creature_heap'[cid].bias_genes = creature_heap[cid].bias_genes
                    /\ cid \notin {s, r} => creature_heap'[cid] = creature_heap[cid]
              /\ s # r =>
                    /\ creature_heap'[s].agents["receiver"] = creature_heap[s].agents["receiver"]
                    /\ creature_heap'[r].agents["sender"] = creature_heap[r].agents["sender"]

C34_EpisodeFrame == [][C34_Step]_vars

\* the first episode was a success of two different creatures of a population
\* of three: the third creature and the learners of the roles not played are as
\* constructed
C34_Witness ==
    /\ cfg.pop_size = 3
    /\ loop.pc = "episode"
    /\ loop.gen = 0
    /\ loop.episode = 1
    /\ \E s, r, o \in Members(population) :
          /\ s # r /\ o \notin {s, r}
          /\ creature_heap[s].fitness = cfg.success_fitness["sender"]
          /\ creature_heap[r].fitness = cfg.success_fitness["receiver"]
          /\ creature_heap[s].agents["sender"].urn_balls[0][0] > 1
          /\ creature_heap[r].agents["receiver"].urn_balls[0][0] > 1
          /\ creature_heap[s].agents["receiver"].urn_balls[0][0] = 1
          /\ creature_heap[r].agents["sender"].urn_balls[0][0] = 1
          /\ creature_heap[o].fitness = 0
          /\ \A role \in Roles : creature_heap[o].agents[role].urn_balls[0][0] = 1

====
